---- MODULE Spec2Model ----
(***************************************************************************)
(* Streamlit tutorial apps: every app is a script that the framework runs  *)
(* top to bottom on each interaction of one browser session.  A script run *)
(* is one action: it reads the widget values the browser sent, reads and   *)
(* writes st.session_state and renders its outputs.                        *)
(*                                                                         *)
(* Numbers are integers: the float values of the datasets are scaled to    *)
(* integers, dates are day numbers and timestamps are hours since the day  *)
(* before the first date.                                                  *)
(***************************************************************************)
EXTENDS Integers, Sequences, FiniteSets, TLC

VARIABLES
    app,            \* the script this session runs (one session per app/page)
    session_state,  \* st.session_state: a function from the keys present
    request,        \* widget values and buttons the browser sent for the last run
    rendered,       \* what the last script run put on the page
    server,         \* what lives outside the session: the data source, the process
    history         \* bookkeeping of the session: how many runs of each kind it had

vars == <<app, session_state, request, rendered, server, history>>

(***************************************************************************)
(* Bounds of the model.                                                    *)
(***************************************************************************)
\* number of days of the synthetic dataset (periods=180 in the source)
NumDays == 2

(***************************************************************************)
(* Session state helpers (a Python dict).                                  *)
(***************************************************************************)
Has(ss, k) == k \in DOMAIN ss

Put(ss, k, v) == [x \in (DOMAIN ss) \cup {k} |-> IF x = k THEN v ELSE ss[x]]

EmptyState == [x \in {} |-> 0]

(***************************************************************************)
(* Dates.  A date is a day number, a Timestamp counts hours.               *)
(***************************************************************************)
\* pd.to_datetime(date): midnight of that day
to_datetime(d) == d * 24

\* Timestamp.date()
date_of(ts) == ts \div 24

between_Exclusive(x, left, right) == left < x /\ x < right

\* Series.between(left, right): inclusive on both sides
between(x, left, right) == left <= x /\ x <= right

(***************************************************************************)
(* The synthetic datasets of the filters pages (np.random.seed(0), so the  *)
(* same stream of draws in every run).                                     *)
(***************************************************************************)
days == 1..NumDays

cats == <<"Alpha", "Beta", "Gamma">>

warehouses == <<"East", "West", "Central">>

\* np.linspace(0, stop, len(days))[i], rounded down
linspace(stop, i) == IF NumDays = 1 THEN 0 ELSE (stop * (i - 1)) \div (NumDays - 1)

\* the k-th draw of the seeded generator, a number in -scale..scale
\* (np.random.normal(0, scale, ...) after np.random.seed(0))
normal(scale, k) == ((7 * k + 3) % (2 * scale + 1)) - scale

RECURSIVE cumsum(_, _, _)
\* noise.cumsum()[i] for the series whose draws start after `first`
cumsum(scale, first, i) ==
    IF i = 0 THEN 0 ELSE cumsum(scale, first, i - 1) + normal(scale, first + i)

Max(a, b) == IF a >= b THEN a ELSE b

Min(a, b) == IF a <= b THEN a ELSE b

SetMax(S) == CHOOSE x \in S : \A y \in S : y <= x

SetMin(S) == CHOOSE x \in S : \A y \in S : x <= y

\* The state of numpy's generator, which the process keeps from one run to the
\* next: the number of draws made since the stream of seed 0 started.
Generators == 0..2

seed_NotCalled(gen) == gen

\* np.random.seed(0): the stream of seed 0 starts again
seed(gen) == 0

\* vals of category number c on day i, drawn by a generator in state gen:
\* np.maximum(0, base + noise)
vals(gen, c, i) == Max(0, 100 + linspace(20, i) + cumsum(4, gen + (c - 1) * NumDays, i))

\* stock of warehouse number w on day i; the draws follow the three categories'
stock(gen, w, i) ==
    Max(0, 500 + linspace(-60, i) + cumsum(6, gen + (Len(cats) + w - 1) * NumDays, i))

\* the rows of df that a run builds when it draws from a generator in state gen
sales_rows(gen) ==
    { [date |-> to_datetime(d), category |-> cats[c], value |-> vals(gen, c, d)] :
            c \in 1..Len(cats), d \in days }

\* the rows of df_inventory that a run builds
inv_rows(gen) ==
    { [date |-> to_datetime(d), warehouse |-> warehouses[w], stock |-> stock(gen, w, d)] :
            w \in 1..Len(warehouses), d \in days }

\* the generator states that a few runs can reach, and the tables built from each
DrawCounts == 0..(2 + 4 * (Len(cats) + Len(warehouses)) * NumDays)

df_built == [gen \in DrawCounts |-> sales_rows(gen)]

inv_built == [gen \in DrawCounts |-> inv_rows(gen)]

\* what a run of a filters page builds before it draws a widget: np.random.seed(0),
\* then df, and on the placement page df_inventory
BuildDatasets(gen, with_inventory) ==
    [df |-> df_built[seed(gen)],
     df_inventory |-> IF with_inventory THEN inv_built[seed(gen)] ELSE {},
     gen |-> seed(gen) + (Len(cats) + IF with_inventory THEN Len(warehouses) ELSE 0) * NumDays]

\* df = pd.DataFrame(rows), after np.random.seed(0)
df == sales_rows(0)

\* df_inventory = pd.DataFrame(inv_rows), after np.random.seed(0)
df_inventory == inv_rows(0)

all_categories == { r.category : r \in df }

min_d == date_of(SetMin({ r.date : r \in df }))

max_d == date_of(SetMax({ r.date : r \in df }))

vmin == SetMin({ r.value : r \in df })

vmax == SetMax({ r.value : r \in df })

(***************************************************************************)
(* Widget values the browser can send.                                     *)
(***************************************************************************)
\* st.multiselect: any selection of the options (the order is not modelled)
Selections(options) == SUBSET options

\* st.date_input given a (start, end) value returns a tuple: (start, end), or
\* (start,) while the user has picked the start of a range and not yet the end
DateRanges(lo, hi) ==
    { <<s>> : s \in lo..hi } \cup { p \in (lo..hi) \X (lo..hi) : p[1] <= p[2] }

\* the positions of a slider between min_value and max_value that the model
\* drags it to: both ends and the middle
Stops(lo, hi) == {lo, (lo + hi) \div 2, hi}

\* st.slider given a (low, high) value: a pair with low <= high
Ranges(lo, hi) == { p \in Stops(lo, hi) \X Stops(lo, hi) : p[1] <= p[2] }

\* the same with the slider dragged to its ends only
EndRanges(lo, hi) == { p \in {lo, hi} \X {lo, hi} : p[1] <= p[2] }

\* `start_date, end_date = date_range` raises ValueError unless there are two
Unpacks(date_range) == Len(date_range) = 2

\* a page on which the script died with an uncaught exception
ExceptionPage == [status |-> "exception", shown |-> FALSE, table |-> {}]

(***************************************************************************)
(* pages/2_form_based_filters.py                                           *)
(***************************************************************************)
default_filters_EndIsStart ==
    [cats |-> all_categories,
     start |-> to_datetime(min_d), end |-> to_datetime(min_d),
     low |-> vmin, high |-> vmax]

default_filters ==
    [cats |-> all_categories,
     start |-> to_datetime(min_d), end |-> to_datetime(max_d),
     low |-> vmin, high |-> vmax]

\* the values the three form widgets are built with (default=current[...])
FormDefaults(current) ==
    [selected_cats |-> current.cats,
     date_range |-> <<date_of(current.start), date_of(current.end)>>,
     low_high |-> <<current.low, current.high>>]

\* everything the browser can send with a run of the form page
FormRequests ==
    [button : {"none", "Apply", "Reset"},
     selected_cats : Selections(all_categories),
     date_range : DateRanges(min_d, max_d),
     low_high : Ranges(vmin, vmax)]

\* if "applied_filters" not in st.session_state: ... = default_filters.copy()
EnsureApplied(ss) ==
    IF Has(ss, "applied_filters") THEN ss ELSE Put(ss, "applied_filters", default_filters)

\* the Apply branch reaches the tuple unpacking and it raises
ApplyRaises(req) ==
    req.button # "Reset" /\ req.button = "Apply" /\ ~Unpacks(req.date_range)

\* the new applied filters of the Apply branch
FromForm(req) ==
    [cats |-> IF req.selected_cats # {} THEN req.selected_cats ELSE {},
     start |-> to_datetime(req.date_range[1]),
     end |-> to_datetime(req.date_range[2]),
     low |-> req.low_high[1], high |-> req.low_high[2]]

UpdateApplied_EveryRun(ss, req) ==
    IF req.button = "Reset" THEN Put(ss, "applied_filters", default_filters)
    ELSE IF Unpacks(req.date_range) THEN Put(ss, "applied_filters", FromForm(req))
    ELSE ss

\* if reset: ... elif applied: ...
UpdateApplied(ss, req) ==
    IF req.button = "Reset" THEN Put(ss, "applied_filters", default_filters)
    ELSE IF req.button = "Apply" THEN Put(ss, "applied_filters", FromForm(req))
    ELSE ss

\* the boolean mask of the form page applied to df
FormMask(rows, f) ==
    { r \in rows :
        /\ (f.cats # {} => r.category \in f.cats)
        /\ between(r.date, f.start, f.end)
        /\ between(r.value, f.low, f.high) }

\* One run of the script of the form page.  Edits of the form reach the script
\* only with a submit button.  In any other run a widget returns what was last
\* submitted if the framework takes it for the same widget, and its default
\* (built from the applied filters) if not: the model allows both.  With an
\* incomplete date range the other two widgets are taken as untouched: the
\* script raises before it uses them.
FormRun(req) ==
    /\ app = "form"
    /\ LET built == BuildDatasets(server.rng, FALSE)
           ss1 == EnsureApplied(session_state)
           current == ss1["applied_filters"]
       IN /\ server' = [server EXCEPT !.rng = built.gen]
          /\ ~Has(session_state, "applied_filters") => req.button = "none"
          \* the run that draws the page has no submit
          /\ rendered.status = "none" => req.button = "none"
          /\ req.button = "none" =>
                \A f \in {"selected_cats", "date_range", "low_high"} :
                    \/ req[f] = FormDefaults(current)[f]
                    \/ f \in DOMAIN request /\ req[f] = request[f]
          /\ ~Unpacks(req.date_range) =>
                /\ req.selected_cats = FormDefaults(current).selected_cats
                /\ req.low_high = FormDefaults(current).low_high
          /\ request' = req
          /\ IF ApplyRaises(req)
             THEN /\ session_state' = ss1
                  /\ rendered' = ExceptionPage @@ [dataset |-> built.df]
             ELSE LET ss2 == UpdateApplied(ss1, req)
                      applied_vals == ss2["applied_filters"]
                  IN /\ session_state' = ss2
                     /\ rendered' = [status |-> "ok", shown |-> TRUE,
                                     table |-> FormMask(built.df, applied_vals),
                                     dataset |-> built.df]
    /\ UNCHANGED <<app, history>>

FormNext == \E req \in FormRequests : FormRun(req)

(***************************************************************************)
(* pages/1_Intro_to_Filters.py                                             *)
(***************************************************************************)
\* the three sidebar widgets as first built
IntroDefaults ==
    [button |-> "none",
     selected_cats |-> all_categories,
     date_range |-> <<min_d, max_d>>,
     low_high |-> <<vmin, vmax>>]

IntroRequests ==
    [button : {"none"},
     selected_cats : Selections(all_categories),
     date_range : DateRanges(min_d, max_d),
     low_high : Ranges(vmin, vmax)]

IntroMask_NoCategory(rows, selected_cats, start_ts, end_ts, low, high) ==
    { r \in rows :
        /\ between(r.date, start_ts, end_ts)
        /\ between(r.value, low, high) }

\* the boolean mask of the intro page applied to df
IntroMask(rows, selected_cats, start_ts, end_ts, low, high) ==
    { r \in rows :
        /\ (selected_cats # {} => r.category \in selected_cats)
        /\ between(r.date, start_ts, end_ts)
        /\ between(r.value, low, high) }

\* the widgets have keys: their values live in st.session_state
IntroWidgets(ss, req) ==
    Put(Put(Put(ss, "cats", req.selected_cats), "date_rng", req.date_range),
        "val_rng", req.low_high)

\* One run of the script of the intro page: the first run builds the widgets
\* with their defaults, a later run follows the change of at most one widget.
IntroRun(req) ==
    /\ app = "intro"
    /\ IF ~Has(session_state, "cats")
       THEN req = IntroDefaults
       ELSE Cardinality({ f \in {"selected_cats", "date_range", "low_high"} :
                            req[f] # request[f] }) <= 1
    /\ request' = req
    /\ session_state' = IntroWidgets(session_state, req)
    /\ LET built == BuildDatasets(server.rng, FALSE)
       IN /\ server' = [server EXCEPT !.rng = built.gen]
          /\ IF ~Unpacks(req.date_range)
             THEN rendered' = ExceptionPage @@ [dataset |-> built.df]
             ELSE LET start_ts == to_datetime(req.date_range[1])
                      end_ts == to_datetime(req.date_range[2])
                      filtered == IntroMask(built.df, req.selected_cats, start_ts, end_ts,
                                            req.low_high[1], req.low_high[2])
                  IN IF filtered = {}
                     THEN \* st.info(...); st.stop()
                          rendered' = [status |-> "stopped", shown |-> FALSE, table |-> {},
                                       dataset |-> built.df]
                     ELSE rendered' = [status |-> "ok", shown |-> TRUE, table |-> filtered,
                                       dataset |-> built.df]
    /\ UNCHANGED <<app, history>>

IntroNext == \E req \in IntroRequests : IntroRun(req)

(***************************************************************************)
(* pages/3_Filter_Placement_Patterns.py                                    *)
(***************************************************************************)
g_min == date_of(Min(SetMin({ r.date : r \in df }), SetMin({ r.date : r \in df_inventory })))

g_max == date_of(Max(SetMax({ r.date : r \in df }), SetMax({ r.date : r \in df_inventory })))

smin == SetMin({ r.stock : r \in df_inventory })

smax == SetMax({ r.stock : r \in df_inventory })

all_warehouses == { r.warehouse : r \in df_inventory }

\* if "global" not in st.session_state: ...
EnsureGlobal(ss) ==
    IF Has(ss, "global") THEN ss
    ELSE Put(ss, "global", [start |-> to_datetime(g_min), end |-> to_datetime(g_max)])

UpdateGlobal_ResetsSales(ss, button, g_start, g_end) ==
    IF button = "Apply"
    THEN Put(Put(ss, "global", [start |-> to_datetime(g_start), end |-> to_datetime(g_end)]),
             "sales_filters", [cats |-> all_categories, low |-> vmin, high |-> vmax])
    ELSE ss

\* if apply_global: ...
UpdateGlobal(ss, button, g_start, g_end) ==
    IF button = "Apply"
    THEN Put(ss, "global", [start |-> to_datetime(g_start), end |-> to_datetime(g_end)])
    ELSE ss

\* df[df["date"].between(g_start_ts, g_end_ts)]
GlobalWindow(rows, g) == { r \in rows : between(r.date, g.start, g.end) }

\* if "sales_filters" not in st.session_state: ...
EnsureSales(ss, sales_global) ==
    IF Has(ss, "sales_filters") THEN ss
    ELSE Put(ss, "sales_filters",
             [cats |-> { r.category : r \in sales_global },
              low |-> IF sales_global # {} THEN SetMin({ r.value : r \in sales_global }) ELSE 0,
              high |-> IF sales_global # {} THEN SetMax({ r.value : r \in sales_global }) ELSE 1])

\* if s_reset: ... elif s_apply: ...
UpdateSales(ss, button, s_cats, s_low_high) ==
    IF button = "Reset sales filters"
    THEN Put(ss, "sales_filters", [cats |-> all_categories, low |-> vmin, high |-> vmax])
    ELSE IF button = "Apply sales filters"
    THEN Put(ss, "sales_filters",
             [cats |-> s_cats, low |-> s_low_high[1], high |-> s_low_high[2]])
    ELSE ss

\* s_mask applied to sales_global
SalesMask(sales_global, s_vals) ==
    { r \in sales_global :
        /\ (s_vals.cats # {} => r.category \in s_vals.cats)
        /\ between(r.value, s_vals.low, s_vals.high) }

\* if "inv_filters" not in st.session_state: ...
EnsureInv(ss, inv_global) ==
    IF Has(ss, "inv_filters") THEN ss
    ELSE Put(ss, "inv_filters",
             [wh |-> { r.warehouse : r \in inv_global },
              low |-> IF inv_global # {} THEN SetMin({ r.stock : r \in inv_global }) ELSE 0,
              high |-> IF inv_global # {} THEN SetMax({ r.stock : r \in inv_global }) ELSE 1])

\* if i_reset: ... elif i_apply: ...
UpdateInv(ss, button, i_wh, i_low_high) ==
    IF button = "Reset inventory filters"
    THEN Put(ss, "inv_filters", [wh |-> all_warehouses, low |-> smin, high |-> smax])
    ELSE IF button = "Apply inventory filters"
    THEN Put(ss, "inv_filters",
             [wh |-> i_wh, low |-> i_low_high[1], high |-> i_low_high[2]])
    ELSE ss

\* i_mask applied to inv_global
InvMask(inv_global, i_vals) ==
    { r \in inv_global :
        /\ (i_vals.wh # {} => r.warehouse \in i_vals.wh)
        /\ between(r.stock, i_vals.low, i_vals.high) }

\* st.slider raises when its value lies outside min_value..max_value
SliderRaises(low, high, lo, hi) == low < lo \/ high > hi

PlacementButtons ==
    {"none", "Apply", "Apply sales filters", "Reset sales filters",
     "Apply inventory filters", "Reset inventory filters"}

\* One run of the script of the filter-placement page.  `button` is the submit
\* button pressed, if any; g, s and i are the values of the three forms, which
\* the script uses only for the form whose Apply button was pressed.
PlacementRun(button, g, s, i) ==
    /\ app = "patterns"
    /\ ~Has(session_state, "global") => button = "none"
    \* the run that draws the page has no submit
    /\ rendered.status = "none" => button = "none"
    /\ LET built == BuildDatasets(server.rng, TRUE)
           ss1 == EnsureGlobal(session_state)
           ss2 == UpdateGlobal(ss1, button, g[1], g[2])
           sales_global == GlobalWindow(built.df, ss2["global"])
           inv_global == GlobalWindow(built.df_inventory, ss2["global"])
           ss3 == EnsureSales(ss2, sales_global)
           s_current == ss3["sales_filters"]
           ss4 == UpdateSales(ss3, button, s.cats, s.low_high)
           sales_filtered == SalesMask(sales_global, ss4["sales_filters"])
           ss5 == EnsureInv(ss4, inv_global)
           i_current == ss5["inv_filters"]
           ss6 == UpdateInv(ss5, button, i.wh, i.low_high)
           inv_filtered == InvMask(inv_global, ss6["inv_filters"])
           data == [dataset |-> built.df, inventory |-> built.df_inventory]
       IN /\ request' = [button |-> button]
          /\ server' = [server EXCEPT !.rng = built.gen]
          /\ IF SliderRaises(s_current.low, s_current.high, vmin, vmax)
             THEN /\ session_state' = ss3
                  /\ rendered' = ExceptionPage @@ data
             ELSE IF SliderRaises(i_current.low, i_current.high, smin, smax)
             THEN /\ session_state' = ss5
                  /\ rendered' = [status |-> "exception", shown |-> sales_filtered # {},
                                  table |-> sales_filtered] @@ data
             ELSE /\ session_state' = ss6
                  /\ rendered' = [status |-> "ok", shown |-> sales_filtered # {},
                                  table |-> sales_filtered,
                                  inv_shown |-> inv_filtered # {},
                                  inv_table |-> inv_filtered] @@ data
    /\ UNCHANGED <<app, history>>

\* form values of a form that is not submitted: the script does not use them
NoDates == <<g_min, g_max>>

NoSales == [cats |-> all_categories, low_high |-> <<vmin, vmax>>]

NoInv == [wh |-> all_warehouses, low_high |-> <<smin, smax>>]

PlacementNext ==
    \/ \E b \in {"none", "Reset sales filters", "Reset inventory filters"} :
            PlacementRun(b, NoDates, NoSales, NoInv)
    \/ \E g \in (g_min..g_max) \X (g_min..g_max) :
            PlacementRun("Apply", g, NoSales, NoInv)
    \/ \E c \in Selections(all_categories), r \in EndRanges(vmin, vmax) :
            PlacementRun("Apply sales filters", NoDates, [cats |-> c, low_high |-> r], NoInv)
    \/ \E w \in Selections(all_warehouses), r \in EndRanges(smin, smax) :
            PlacementRun("Apply inventory filters", NoDates, NoSales, [wh |-> w, low_high |-> r])

(***************************************************************************)
(* Sessions of the filters pages.                                          *)
(***************************************************************************)
NoRequest == [button |-> "none"]

NoPage == [status |-> "none", shown |-> FALSE, table |-> {}]

NoHistory ==
    [full |-> 0, fragment |-> 0, reset |-> FALSE, cached |-> 0, nocache |-> 0,
     clicks |-> 0]

\* a new session of one of the apps: nothing stored, nothing rendered
NewSession(apps) ==
    /\ app \in apps
    /\ session_state = EmptyState
    /\ request = NoRequest
    /\ rendered = NoPage
    /\ history = NoHistory

\* the filters pages use no data source; the process they run in holds
\* numpy's generator in a state the session does not know
FilterServers == { [sheet |-> "none", rng |-> gen] : gen \in Generators }

FiltersInit == NewSession({"intro", "form", "patterns"}) /\ server \in FilterServers

FiltersNext == IntroNext \/ FormNext \/ PlacementNext

SpecFilters == FiltersInit /\ [][FiltersNext]_vars

(***************************************************************************)
(* tutorial/filters/app.py: the three pages behind st.navigation, with one *)
(* st.session_state for the session.                                       *)
(***************************************************************************)
Pages == <<"intro", "form", "patterns">>

\* The paths given to st.Page differ from the names of the files in pages/ by
\* the case of some letters: the files are found on a file system that ignores
\* case, and st.Page raises on one that does not.
FileSystems == {"ignores case", "case-sensitive"}

DropWidgets_WholeState(ss) == EmptyState

\* the framework drops the state of the keyed widgets that the current page
\* does not draw: cats, date_rng and val_rng belong to the intro page
DropWidgets(ss) ==
    [k \in (DOMAIN ss) \ {"cats", "date_rng", "val_rng"} |-> ss[k]]

\* The first run of app.py in a session: st.Page(...) three times, then
\* st.navigation([intro, form, patterns]).run(), which runs the first page.
AppRun ==
    /\ app = "app"
    /\ IF server.files = "case-sensitive"
       THEN /\ rendered' = ExceptionPage
            /\ UNCHANGED app
       ELSE /\ rendered' = NoPage
            /\ app' = Pages[1]
    /\ UNCHANGED <<session_state, request, server, history>>

\* The user picks another page in the navigation menu: app.py runs again and
\* runs that page, with the widgets of the page left behind dropped.
Navigate(page) ==
    /\ app \in { Pages[n] : n \in 1..Len(Pages) }
    /\ page \in { Pages[n] : n \in 1..Len(Pages) } \ {app}
    /\ rendered.status # "none"
    /\ app' = page
    /\ request' = NoRequest
    /\ rendered' = NoPage
    /\ session_state' = DropWidgets(session_state)
    /\ UNCHANGED <<server, history>>

\* the interactions that a session with navigation is followed through
NavIntroRequests ==
    { req \in IntroRequests :
        /\ req.selected_cats \in {all_categories, {"Alpha"}}
        /\ req.date_range = IntroDefaults.date_range
        /\ req.low_high = IntroDefaults.low_high }

NavFormRequests ==
    { req \in FormRequests :
        /\ req.selected_cats \in {all_categories, {"Beta"}}
        /\ req.date_range \in {<<min_d, max_d>>, <<max_d, max_d>>}
        /\ req.low_high = <<vmin, vmax>> }

NavInit ==
    /\ NewSession({"app"})
    /\ \E gen \in Generators, files \in FileSystems :
          server = [sheet |-> "none", rng |-> gen, files |-> files]

NavNext ==
    \/ AppRun
    \/ \E page \in { Pages[n] : n \in 1..Len(Pages) } : Navigate(page)
    \/ \E req \in NavIntroRequests : IntroRun(req)
    \/ \E req \in NavFormRequests : FormRun(req)
    \/ \E b \in {"none", "Reset sales filters", "Reset inventory filters"} :
            PlacementRun(b, NoDates, NoSales, NoInv)
    \/ PlacementRun("Apply", <<g_max, g_max>>, NoSales, NoInv)
    \/ PlacementRun("Apply sales filters", NoDates,
                    [cats |-> {"Alpha"}, low_high |-> <<vmin, vmax>>], NoInv)
    \/ PlacementRun("Apply inventory filters", NoDates, NoSales,
                    [wh |-> {"East"}, low_high |-> <<smin, smax>>])

SpecNav == NavInit /\ [][NavNext]_vars

\* a session that stays on the intro page
SpecIntro == NewSession({"intro"}) /\ server \in FilterServers /\ [][IntroNext]_vars

\* a session that stays on the form page
SpecForm == NewSession({"form"}) /\ server \in FilterServers /\ [][FormNext]_vars

(***************************************************************************)
(* Reruns: key-concepts/app.py, lab1.py and the counters and the fragment  *)
(* of tutorial/caching-fragments/app.py.                                   *)
(***************************************************************************)
\* full script executions and fragment reruns of a session that the model follows
MaxRuns == 3

\* the clock readings of datetime.now() that the model tells apart
MaxTime == 1

Times == 0..MaxTime

CountRun_CreatedEveryRun(ss, key) == Put(Put(ss, key, 0), key, 1)

\* session_state.<key> += 1, after `if key not in st.session_state: ... = 0`
CountRun(ss, key) ==
    LET ss1 == IF Has(ss, key) THEN ss ELSE Put(ss, key, 0)
    IN Put(ss1, key, ss1[key] + 1)

\* a full script execution of the session
FullRun(h) == [h EXCEPT !.full = @ + 1]

(* key-concepts/app.py *)

\* positions of the sliders (0..100, 30 at first) and values of the number inputs
SliderValues == {30, 60}

Numbers == {0, 1, 2}

KeyButtons == {"none", "Add", "Manual rerun now", "Reset this section's state"}

\* the page before any run: the widgets at their defaults
KeyDefaults ==
    [button |-> "none", instant_val |-> 30, a |-> 0, b |-> 0,
     form_a |-> 0, form_b |-> 0, frag_slider |-> 30]

\* what the browser holds, whether or not a run happened yet
KeyRequest == IF "a" \in DOMAIN request THEN request ELSE KeyDefaults

\* for k in list(st.session_state.keys()):
\*     if k.startswith("rerun_") or k in {"run_count"}: del st.session_state[k]
ResetSection(ss) ==
    [k \in (DOMAIN ss) \ {"rerun_instant_slider", "rerun_manual_button",
                          "rerun_reset_button", "rerun_last_submit", "run_count"}
        |-> ss[k]]

KeyEditForm_OutsideForm(a, b) ==
    /\ app = "key-concepts"
    /\ rendered.status = "ok"
    /\ history.full < MaxRuns
    /\ <<a, b>> # <<request.form_a, request.form_b>>
    /\ request' = [request EXCEPT !.form_a = a, !.form_b = b, !.a = a, !.b = b,
                                  !.button = "none"]
    /\ session_state' = CountRun(session_state, "run_count")
    /\ rendered' = [rendered EXCEPT !.run_count = @ + 1, !.bottom_run_count = @ + 1,
                                    !.sum = <<>>]
    /\ history' = FullRun(history)
    /\ UNCHANGED <<app, server>>

\* The user edits the number inputs A and B of add_form: they are inside
\* st.form, so the edit stays in the browser and no script run follows.
KeyEditForm(a, b) ==
    /\ app = "key-concepts"
    /\ rendered.status = "ok"
    /\ <<a, b>> # <<request.form_a, request.form_b>>
    /\ request' = [request EXCEPT !.form_a = a, !.form_b = b]
    /\ UNCHANGED <<app, session_state, rendered, server, history>>

\* One full run of key-concepts/app.py.  It follows the move of the slider
\* outside the form (instant_val), the press of a button, or st.rerun().
KeyRun(button, instant_val, now) ==
    /\ app = "key-concepts"
    /\ history.full < MaxRuns
    /\ rendered.status = "none" =>
            (button = "none" /\ instant_val = KeyDefaults.instant_val)
    /\ rendered.status = "rerun" =>
            /\ button = "none"
            /\ instant_val = IF Has(session_state, "rerun_instant_slider")
                             THEN session_state["rerun_instant_slider"]
                             ELSE KeyDefaults.instant_val
    /\ button # "none" => instant_val = KeyRequest.instant_val
    /\ LET submitted == button = "Add"
           \* the form's values reach the script when Add is pressed
           a == IF submitted THEN KeyRequest.form_a ELSE KeyRequest.a
           b == IF submitted THEN KeyRequest.form_b ELSE KeyRequest.b
           ss1 == CountRun(session_state, "run_count")
           ss2 == Put(ss1, "rerun_instant_slider", instant_val)
           ss3 == IF submitted THEN Put(ss2, "rerun_last_submit", now) ELSE ss2
           ss4 == Put(ss3, "rerun_manual_button", button = "Manual rerun now")
           ss5 == Put(ss4, "rerun_reset_button", button = "Reset this section's state")
           top == [run_count |-> ss1["run_count"],
                   sum |-> IF submitted THEN <<a + b>> ELSE <<>>,
                   shown |-> FALSE, table |-> {}]
       IN /\ request' = [KeyRequest EXCEPT !.button = button, !.instant_val = instant_val,
                                           !.a = a, !.b = b]
          /\ IF button = "Manual rerun now"
             THEN \* st.rerun(): the run ends here and another one follows
                  /\ session_state' = ss4
                  /\ rendered' = top @@ [status |-> "rerun"]
                  /\ history' = FullRun(history)
             ELSE IF button = "Reset this section's state"
             THEN /\ session_state' = ResetSection(ss5)
                  /\ rendered' = top @@ [status |-> "rerun"]
                  /\ history' = [FullRun(history) EXCEPT !.reset = TRUE]
             ELSE /\ session_state' = ss5
                  /\ rendered' = top @@ [status |-> "ok",
                                         last_submit |->
                                            IF Has(ss5, "rerun_last_submit")
                                            THEN <<ss5["rerun_last_submit"]>> ELSE <<>>,
                                         bottom_run_count |-> ss5["run_count"]]
                  /\ history' = FullRun(history)
    /\ UNCHANGED <<app, server>>

\* fragment_function(): the body of the fragment, with the slider inside it
fragment_function(ss, frag_slider) == ss

\* A fragment rerun of key-concepts/app.py: the slider inside the fragment
\* moved, the framework runs fragment_function() and nothing else.
KeyFragment(frag_slider) ==
    /\ app = "key-concepts"
    /\ rendered.status = "ok"
    /\ history.fragment < MaxRuns
    /\ frag_slider # request.frag_slider
    /\ request' = [request EXCEPT !.button = "none", !.frag_slider = frag_slider]
    /\ session_state' = fragment_function(session_state, frag_slider)
    /\ history' = [history EXCEPT !.fragment = @ + 1]
    /\ UNCHANGED <<app, rendered, server>>

KeyNext ==
    \/ \E a \in Numbers, b \in Numbers : KeyEditForm(a, b)
    \/ \E button \in KeyButtons, v \in SliderValues, now \in Times : KeyRun(button, v, now)
    \/ \E v \in SliderValues : KeyFragment(v)
(* lab1.py *)

\* the value np.random.randint(0, 1000) returns from the generator state that
\* a complete run leaves: np.random.seed(0) and the draws of the sample data
SeededValue == "the draw after the seeded sample data"

\* values of np.random.randint(0, 1000) that the model tells apart
RandomValues == {SeededValue, "another draw"}

Lab1Triggers == {"none", "Increment counter", "Reset counter", "name", "num", "sidebar"}

Lab1Values == [name |-> {"", "Ann"}, num |-> {5, 7}]

mark_event_NothingStored(ss, now) == ss

\* _mark_event(), the on_change callback of the widgets `name` and `num`
mark_event(ss, now) == Put(ss, "last_event", now)

CounterDemo_PlainVariable(ss, trigger) ==
    Put(ss, "counter", IF trigger = "Increment counter" THEN 1 ELSE 0)

\* the counter demo: the buttons Increment counter and Reset counter
CounterDemo(ss, trigger) ==
    LET ss1 == IF Has(ss, "counter") THEN ss ELSE Put(ss, "counter", 0)
    IN IF trigger = "Increment counter" THEN Put(ss1, "counter", ss1["counter"] + 1)
       ELSE IF trigger = "Reset counter" THEN Put(ss1, "counter", 0)
       ELSE ss1

\* One full run of lab1.py.  `trigger` is what caused it; for a change of the
\* text input or the slider, `value` is the new value and the callback runs
\* before the script body.
\* the clicks on Increment counter since the last click on Reset counter
Clicks(n, trigger) ==
    IF trigger = "Increment counter" THEN n + 1
    ELSE IF trigger = "Reset counter" THEN 0 ELSE n

Lab1Run(trigger, value, now, random_per_run) ==
    /\ app = "lab1"
    /\ history.full < MaxRuns
    /\ rendered.status = "none" => trigger = "none"
    /\ trigger \in {"name", "num"} =>
            /\ value \in Lab1Values[trigger]
            /\ value # session_state[trigger]
    /\ server.rng = "seeded" => random_per_run = SeededValue
    /\ LET ss0 == IF trigger \in {"name", "num"}
                  THEN mark_event(Put(session_state, trigger, value), now)
                  ELSE session_state
           ss1 == CountRun(ss0, "runs")
           ss2 == CounterDemo(ss1, trigger)
           ss3 == IF Has(ss2, "name") THEN ss2 ELSE Put(ss2, "name", "")
           ss4 == IF Has(ss3, "num") THEN ss3 ELSE Put(ss3, "num", 5)
       IN /\ session_state' = ss4
          /\ request' = [button |-> trigger, now |-> now]
          /\ rendered' = [status |-> "ok", shown |-> FALSE, table |-> {},
                          runs |-> ss1["runs"],
                          counter |-> ss2["counter"],
                          random_per_run |-> random_per_run,
                          last_event |-> IF Has(ss4, "last_event")
                                         THEN <<ss4["last_event"]>> ELSE <<>>]
          \* np.random.seed(0) and the draws of the sample data
          /\ server' = [server EXCEPT !.rng = "seeded"]
          /\ history' = [FullRun(history) EXCEPT !.clicks = Clicks(@, trigger)]
    /\ UNCHANGED app

Lab1Next ==
    \E now \in Times, r \in RandomValues :
        \/ \E trigger \in Lab1Triggers \ {"name", "num"} : Lab1Run(trigger, "", now, r)
        \/ \E value \in Lab1Values["name"] : Lab1Run("name", value, now, r)
        \/ \E value \in Lab1Values["num"] : Lab1Run("num", value, now, r)

(***************************************************************************)
(* The spreadsheet behind st.connection("gsheets") and its type coercion.  *)
(***************************************************************************)
\* rows of the sheet that the model follows
MaxRows == 2

\* A cell is a string, a sequence of characters.  The model tells apart a
\* number, text, and digits followed by text.
Cells == { <<"1", "2">>, <<"x">>, <<"1", "x">> }

Digits == <<"0", "1", "2", "3", "4", "5", "6", "7", "8", "9">>

IsDigit(c) == \E i \in 1..Len(Digits) : Digits[i] = c

DigitValue(c) == (CHOOSE i \in 1..Len(Digits) : Digits[i] = c) - 1

IsNumber(cell) == Len(cell) > 0 /\ \A i \in 1..Len(cell) : IsDigit(cell[i])

RECURSIVE NumberOf(_)
NumberOf(cell) ==
    IF Len(cell) = 0 THEN 0
    ELSE 10 * NumberOf(SubSeq(cell, 1, Len(cell) - 1)) + DigitValue(cell[Len(cell)])

\* a missing value (NaN, NaT); a present value v is <<v>>
Missing == <<>>

\* pd.to_numeric(..., errors="coerce") of one cell
to_numeric(cell) == IF IsNumber(cell) THEN <<NumberOf(cell)>> ELSE Missing

\* pd.to_datetime(..., errors="coerce") of one cell; a date is written as its
\* day number
to_datetime_coerce(cell) == IF IsNumber(cell) THEN <<to_datetime(NumberOf(cell))>> ELSE Missing

\* the tables a sheet can hold: each row has the cell of its date column and the
\* cell that its numeric columns hold
Tables == UNION { [1..n -> [date : Cells, num : Cells]] : n \in 0..MaxRows }

\* the sheets an app can be given: all the columns it expects, or all but one
Sheets(expected) ==
    [columns : {expected} \cup { expected \ {c} : c \in expected }, rows : Tables]

\* a sheet with every expected column and one well-formed row
GoodSheet(expected) ==
    [columns |-> expected, rows |-> << [date |-> <<"1", "2">>, num |-> <<"1", "2">>] >>]

\* the table after coercion of the columns present: `date_col` and `num_cols`
\* name the columns the script coerces
Coerce(sheet, date_col, num_cols) ==
    [columns |-> sheet.columns,
     rows |-> [i \in 1..Len(sheet.rows) |->
                [date |-> IF date_col \in sheet.columns
                          THEN to_datetime_coerce(sheet.rows[i].date)
                          ELSE sheet.rows[i].date,
                 num |-> IF num_cols \cap sheet.columns # {}
                         THEN to_numeric(sheet.rows[i].num)
                         ELSE sheet.rows[i].num]]]

(* tutorial/caching-fragments/app.py *)

numeric_cols ==
    {"beds", "baths", "area", "price", "lotArea", "year", "zestimate",
     "taxAssessedValue", "timeOnZillow", "price/SF"}

CachingColumns == numeric_cols \cup {"sold_date", "city", "zpid"}

\* preprocess_data(df): coerces the columns that are there
preprocess_data(sheet) ==
    LET coerced == Coerce(sheet, "sold_date", numeric_cols)
    IN IF "sold_date" \in sheet.columns
       THEN [coerced EXCEPT !.columns = @ \cup {"sold_year_month"}]
       ELSE coerced

simple_city_fragment_CountsAppRun(ss) ==
    Put(Put(ss, "fragment_runs", ss["fragment_runs"] + 1), "app_runs", ss["app_runs"] + 1)

\* simple_city_fragment(): st.session_state.fragment_runs += 1
simple_city_fragment(ss) == Put(ss, "fragment_runs", ss["fragment_runs"] + 1)

\* what the fragment writes on the page
FragmentPanel(ss) ==
    [app_runs |-> ss["app_runs"], fragment_runs |-> ss["fragment_runs"]]

\* the cities of the sheet
Cities == {"Avon", "Bristol", "Canton", "Darien", "Easton"}

\* rows per city in a sheet with four cities of ten sales or more
CitySales ==
    [c \in Cities |->
        IF c = "Avon" THEN 13 ELSE IF c = "Bristol" THEN 12
        ELSE IF c = "Canton" THEN 11 ELSE IF c = "Darien" THEN 10 ELSE 9]

\* rows per city in a sheet where no city has ten sales
FewSales == [c \in Cities |-> IF c = "Avon" THEN 2 ELSE 1]

MIN_CITY_SALES == 10

\* _compute_aggregations(): the summary of the cities with MIN_CITY_SALES
\* sales or more; it takes no argument and reads the loaded table only
compute_aggregations(sales) ==
    LET big_cities == { c \in DOMAIN sales : sales[c] >= MIN_CITY_SALES }
    IN [filtered_data |-> big_cities,
        city_summary |-> [c \in big_cities |-> sales[c]]]

get_aggregations_cached_NeverStored(cache, sales) ==
    [agg |-> compute_aggregations(sales), cache |-> cache, executed |-> 1]

\* @st.cache_data get_aggregations_cached(): the function has no argument, so
\* the store holds one entry; a call with the entry there returns it
get_aggregations_cached(cache, sales) ==
    IF cache = <<>>
    THEN [agg |-> compute_aggregations(sales),
          cache |-> <<compute_aggregations(sales)>>, executed |-> 1]
    ELSE [agg |-> cache[1], cache |-> cache, executed |-> 0]

\* get_aggregations_nocache()
get_aggregations_nocache(cache, sales) ==
    [agg |-> compute_aggregations(sales), cache |-> cache, executed |-> 1]

\* city_summary.sort_values("total_sales", ascending=False).head(n)["city"]
top_cities_list(city_summary, n) ==
    { c \in DOMAIN city_summary :
        Cardinality({ d \in DOMAIN city_summary : city_summary[d] > city_summary[c] }) < n }

CacheModes == {"Use caching", "No caching"}

\* the slider of the top cities: 3 .. min(30, max(3, n_cities))
TopNs(n_cities) == 3..Min(30, Max(3, n_cities))

TopNDefault(n_cities) == Min(10, Max(3, n_cities))

\* the widgets of the page as a first run finds them
CachingDefaults(n_cities) ==
    [cache_mode |-> "Use caching", top_n_cities |-> TopNDefault(n_cities),
     focus_city |-> "first"]

\* the widget values a run can get: the defaults when the run before did not
\* draw the widgets, and otherwise the last values with one widget changed
CachingWidgets(n_cities) ==
    IF rendered.status # "ok" THEN { CachingDefaults(n_cities) }
    ELSE LET last == [cache_mode |-> request.cache_mode,
                      top_n_cities |-> request.top_n_cities,
                      focus_city |-> request.focus_city]
         IN {last}
            \cup { [last EXCEPT !.cache_mode = m] : m \in CacheModes }
            \cup { [last EXCEPT !.top_n_cities = n] : n \in TopNs(n_cities) }
            \cup { [last EXCEPT !.focus_city = f] : f \in {"first", "second"} }

\* One full run of tutorial/caching-fragments/app.py; `read` tells whether
\* conn.read() returns the sheet or raises, `w` holds the values of the radio,
\* the slider and the selectbox.
CachingRun(read, w) ==
    /\ app = "caching-fragments"
    /\ history.full < MaxRuns
    /\ LET counted == CountRun(session_state, "app_runs")
           ss1 == IF Has(counted, "fragment_runs") THEN counted
                  ELSE Put(counted, "fragment_runs", 0)
           top == [app_runs |-> ss1["app_runs"], error |-> FALSE]
           df_loaded == preprocess_data(server.sheet)
           n_cities == Cardinality(DOMAIN server.sales)
           got == IF w.cache_mode = "Use caching"
                  THEN get_aggregations_cached(server.cache, server.sales)
                  ELSE get_aggregations_nocache(server.cache, server.sales)
       IN /\ IF read = "raises"
             THEN \* conn.read() is not inside a try: the exception ends the run
                  /\ request' = [button |-> "none", read |-> read]
                  /\ session_state' = ss1
                  /\ rendered' = top @@ [status |-> "exception", where |-> "read",
                                         shown |-> FALSE, table |-> <<>>]
                  /\ history' = FullRun(history)
                  /\ UNCHANGED server
             ELSE IF "city" \notin df_loaded.columns
             THEN \* all_cities = df["city"]...: KeyError
                  /\ request' = [button |-> "none", read |-> read]
                  /\ session_state' = ss1
                  /\ rendered' = top @@ [status |-> "exception", where |-> "below",
                                         shown |-> FALSE, table |-> <<>>]
                  /\ history' = FullRun(history)
                  /\ UNCHANGED server
             ELSE /\ w \in CachingWidgets(n_cities)
                  \* the selectbox is drawn only with a city summary
                  /\ DOMAIN got.agg.city_summary = {} => w.focus_city = "first"
                  /\ request' = [button |-> "none", read |-> read] @@ w
                  /\ session_state' = simple_city_fragment(ss1)
                  /\ server' = [server EXCEPT !.cache = got.cache]
                  /\ history' =
                        IF w.cache_mode = "Use caching"
                        THEN [FullRun(history) EXCEPT !.cached = @ + got.executed]
                        ELSE [FullRun(history) EXCEPT !.nocache = @ + got.executed]
                  /\ rendered' = top @@ [status |-> "ok", where |-> "end",
                                         shown |-> TRUE, table |-> df_loaded.rows,
                                         mode_label |-> IF w.cache_mode = "Use caching"
                                                        THEN "Cached" ELSE "Non-cached",
                                         executed |-> got.executed,
                                         agg |-> got.agg,
                                         top_cities |->
                                            top_cities_list(got.agg.city_summary,
                                                            w.top_n_cities),
                                         fragment |-> FragmentPanel(simple_city_fragment(ss1))]
    /\ UNCHANGED app

\* A fragment rerun of tutorial/caching-fragments/app.py: the selectbox inside
\* the fragment changed, the framework runs simple_city_fragment() and nothing
\* else.
CachingFragment ==
    /\ app = "caching-fragments"
    /\ rendered.status = "ok"
    /\ history.fragment < MaxRuns
    /\ request' = [request EXCEPT !.button = "city"]
    /\ session_state' = simple_city_fragment(session_state)
    /\ rendered' = [rendered EXCEPT !.fragment = FragmentPanel(simple_city_fragment(session_state))]
    /\ history' = [history EXCEPT !.fragment = @ + 1]
    /\ UNCHANGED <<app, server>>

CachingNext ==
    \/ \E read \in {"ok", "raises"}, mode \in CacheModes, n \in TopNs(Cardinality(Cities)),
          focus \in {"first", "second"} :
            CachingRun(read, [cache_mode |-> mode, top_n_cities |-> n, focus_city |-> focus])
    \/ CachingFragment

(* tutorial/chart-essentials/app.py and tutorial/interactivity/app.py *)

num_cols ==
    {"sale_price", "list_price", "purchase_price", "size", "CDOM", "latitude",
     "longitude", "bds", "bths", "year_built"}

ChartColumns == num_cols \cup {"date", "zipcode", "city"}

\* what st.error(...) followed by st.stop() leaves on the page
ErrorPage ==
    [status |-> "stopped", where |-> "read", error |-> TRUE, shown |-> FALSE, table |-> <<>>]

\* what an exception that the script does not catch leaves on the page
Uncaught(where) ==
    [status |-> "exception", where |-> where, error |-> FALSE, shown |-> FALSE, table |-> <<>>]

\* df["date"] = pd.to_datetime(df["date"], errors="coerce")
\* for c in num_cols: df[c] = pd.to_numeric(df[c], errors="coerce")
\* Both index the column, so a column that is not there is a KeyError.
CoercionRaises(sheet) == ~(("date" \in sheet.columns) /\ (num_cols \subseteq sheet.columns))

\* the load and the coercion that the two scripts share, and what follows
LoadAndCoerce(read) ==
    IF read = "raises" THEN ErrorPage
    ELSE IF CoercionRaises(server.sheet) THEN Uncaught("coercion")
    ELSE IF ~({"zipcode", "city"} \subseteq server.sheet.columns) THEN Uncaught("below")
    ELSE [status |-> "ok", where |-> "end", error |-> FALSE, shown |-> TRUE,
          table |-> Coerce(server.sheet, "date", num_cols).rows]

\* One run of tutorial/chart-essentials/app.py
ChartRun(read) ==
    /\ app = "chart-essentials"
    /\ history.full < MaxRuns
    /\ request' = [button |-> "none", read |-> read]
    /\ rendered' = LoadAndCoerce(read)
    /\ history' = FullRun(history)
    /\ UNCHANGED <<app, session_state, server>>

Metrics == {"sale_price", "profit"}

\* One run of tutorial/interactivity/app.py; the sidebar widgets are read
\* before the load
InteractivityRun(read, metric) ==
    /\ app = "interactivity"
    /\ history.full < MaxRuns
    /\ rendered.status = "none" => metric = "sale_price"
    /\ request' = [button |-> "none", read |-> read, metric |-> metric]
    /\ rendered' = LoadAndCoerce(read)
    /\ history' = FullRun(history)
    /\ UNCHANGED <<app, session_state, server>>

(* tutorial/secrets-connecting-data/app.py *)

Worksheets == {"", " ", "Sheet1"}

\* worksheet.strip()
strip(name) == IF name = " " THEN "" ELSE name

\* The secrets file, as the set of the nested keys it holds on the path
\* connections.gsheets.spreadsheet.
SecretsFiles ==
    { {}, {"connections"}, {"connections", "gsheets"},
      {"connections", "gsheets", "spreadsheet"} }

\* cfg = st.secrets.get("connections", {}).get("gsheets", {})
cfg(secrets) ==
    IF {"connections", "gsheets"} \subseteq secrets THEN secrets \ {"connections", "gsheets"}
    ELSE {}

spreadsheet_configured_NotChecked(secrets) == TRUE

\* the negation of `if "spreadsheet" not in cfg`
spreadsheet_configured(secrets) == "spreadsheet" \in cfg(secrets)

\* One run of tutorial/secrets-connecting-data/app.py
SecretsRun(read, worksheet) ==
    /\ app = "secrets"
    /\ history.full < MaxRuns
    /\ rendered.status \in {"none", "unconfigured"} => worksheet = ""
    /\ request' = [button |-> "none", read |-> read, worksheet |-> worksheet]
    /\ rendered' =
          IF ~spreadsheet_configured(server.secrets)
          THEN \* st.info(...) and st.stop(): the connection is not made
               [status |-> "unconfigured", where |-> "secrets", error |-> FALSE,
                shown |-> FALSE, table |-> <<>>,
                hint |-> TRUE, connected |-> FALSE, read_called |-> FALSE,
                download |-> FALSE]
          ELSE IF read = "raises" \/ "spreadsheet" \notin server.secrets
          THEN ErrorPage @@ [hint |-> FALSE, connected |-> TRUE, read_called |-> TRUE,
                             download |-> FALSE]
          ELSE [status |-> "ok", where |-> "end", error |-> FALSE, shown |-> TRUE,
                table |-> server.sheet.rows,
                read_worksheet |-> strip(worksheet),
                hint |-> FALSE, connected |-> TRUE, read_called |-> TRUE,
                download |-> TRUE]
    /\ history' = FullRun(history)
    /\ UNCHANGED <<app, session_state, server>>

(***************************************************************************)
(* Sessions of the apps that load a spreadsheet.                           *)
(***************************************************************************)
ExpectedColumns ==
    [a \in {"chart-essentials", "interactivity", "secrets", "caching-fragments"} |->
        IF a = "caching-fragments" THEN CachingColumns
        ELSE IF a = "secrets" THEN {"city"} ELSE ChartColumns]

LoadInit ==
    /\ NewSession(DOMAIN ExpectedColumns)
    /\ \E sheet \in Sheets(ExpectedColumns[app]), secrets \in SecretsFiles :
          /\ app # "secrets" => secrets = {"connections", "gsheets", "spreadsheet"}
          /\ server = [sheet |-> sheet, secrets |-> secrets, rng |-> "fresh",
                       sales |-> CitySales, cache |-> <<>>]

LoadNext ==
    \/ \E read \in {"ok", "raises"} : ChartRun(read)
    \/ \E read \in {"ok", "raises"}, metric \in Metrics : InteractivityRun(read, metric)
    \/ \E read \in {"ok", "raises"}, worksheet \in Worksheets : SecretsRun(read, worksheet)
    \/ \E read \in {"ok", "raises"} :
          CachingRun(read, CachingDefaults(Cardinality(Cities)))
    \/ CachingFragment

SpecLoad == LoadInit /\ [][LoadNext]_vars

(***************************************************************************)
(* Sessions of the apps with run counters.                                 *)
(***************************************************************************)
RerunInit ==
    /\ NewSession({"key-concepts", "lab1", "caching-fragments"})
    /\ \E sales \in {CitySales, FewSales} :
          server = [sheet |-> GoodSheet(CachingColumns), rng |-> "fresh",
                    sales |-> sales, cache |-> <<>>]

RerunNext == KeyNext \/ Lab1Next \/ CachingNext

SpecRerun == RerunInit /\ [][RerunNext]_vars

(***************************************************************************)
(* Claims about the filters pages.                                         *)
(***************************************************************************)
\* C1: on the form page the stored applied_filters changes only in a run in
\* which Apply or Reset was pressed; a run without a submit leaves it as it
\* was, whatever the form widgets hold, and shows the table filtered by the
\* values that were applied before the run.
C1_AppliedChangesOnlyOnSubmit ==
    [][ (app = "form" /\ Has(session_state, "applied_filters")) =>
          /\ session_state'["applied_filters"] # session_state["applied_filters"]
                => request'.button \in {"Apply", "Reset"}
          /\ request'.button = "none" =>
                /\ session_state' = session_state
                /\ rendered'.shown
                /\ rendered'.table =
                     { r \in df :
                        LET f == session_state["applied_filters"] IN
                        /\ (f.cats = {} \/ r.category \in f.cats)
                        /\ f.start <= r.date /\ r.date <= f.end
                        /\ f.low <= r.value /\ r.value <= f.high } ]_vars

\* a run without a submit has happened while the form held other values than
\* the applied ones
C1_Witness ==
    /\ app = "form"
    /\ request.button = "none"
    /\ Has(session_state, "applied_filters")
    /\ request.selected_cats # session_state["applied_filters"].cats
    /\ request.low_high # <<session_state["applied_filters"].low,
                            session_state["applied_filters"].high>>
    /\ rendered.shown

\* C2: a run of the form page in which Apply was pressed ends with
\* applied_filters equal to the categories, the date range and the value range
\* the form held when Apply was pressed.
C2_ApplyStoresTheForm ==
    (app = "form" /\ request.button = "Apply") =>
        /\ Has(session_state, "applied_filters")
        /\ session_state["applied_filters"].cats = request.selected_cats
        /\ Len(request.date_range) >= 1
        /\ date_of(session_state["applied_filters"].start) = request.date_range[1]
        /\ date_of(session_state["applied_filters"].end) =
              request.date_range[Len(request.date_range)]
        /\ session_state["applied_filters"].low = request.low_high[1]
        /\ session_state["applied_filters"].high = request.low_high[2]
        /\ rendered.status = "ok"

\* C3: a run of the form page in which Reset was pressed ends with
\* applied_filters equal to the defaults (all categories, the full date range,
\* the full value range), the table is the whole dataset, and pressing Reset
\* again changes neither the stored state nor the page.
C3_ResetRestoresDefaults ==
    [][ (app = "form" /\ request'.button = "Reset") =>
          /\ session_state'["applied_filters"].cats = { r.category : r \in df }
          /\ \A r \in df :
                /\ session_state'["applied_filters"].start <= r.date
                /\ r.date <= session_state'["applied_filters"].end
                /\ session_state'["applied_filters"].low <= r.value
                /\ r.value <= session_state'["applied_filters"].high
          /\ rendered'.shown /\ rendered'.table = df
          /\ request.button = "Reset" =>
                (session_state' = session_state /\ rendered' = rendered) ]_vars

\* Reset was pressed while the form held a narrower selection
C3_Witness ==
    /\ app = "form"
    /\ request.button = "Reset"
    /\ request.selected_cats = {"Beta"}
    /\ request.date_range = <<max_d, max_d>>
    /\ session_state["applied_filters"].cats = {"Alpha", "Beta", "Gamma"}
    /\ rendered.table = df

\* the categories currently selected on the page of this session
SelectedCategories ==
    IF app = "intro" THEN session_state["cats"]
    ELSE IF app = "form" THEN session_state["applied_filters"].cats
    ELSE session_state["sales_filters"].cats

C5_MaskIsTheConjunction ==
    (app = "intro" /\ rendered.status # "none"
        /\ Len(request.date_range) = 2 /\ request.selected_cats # {}) =>
        /\ rendered.status \in {"ok", "stopped"}
        /\ rendered.shown <=> rendered.table # {}
        /\ \A r \in df :
              r \in rendered.table <=>
                /\ r.category \in request.selected_cats
                /\ request.date_range[1] <= date_of(r.date)
                /\ date_of(r.date) <= request.date_range[2]
                /\ request.low_high[1] <= r.value
                /\ r.value <= request.low_high[2]
        /\ rendered.table \subseteq df

\* a table that keeps some rows and drops others, with a kept row on the lower
\* value bound and on the last day of the date range
C5_Witness ==
    /\ app = "intro"
    /\ rendered.shown
    /\ request.selected_cats # {} /\ request.selected_cats # all_categories
    /\ rendered.table # df
    /\ \E r \in rendered.table :
          /\ r.value = request.low_high[1]
          /\ date_of(r.date) = request.date_range[2]

(***************************************************************************)
(* Claims about reruns, counters, fragments and forms.                     *)
(***************************************************************************)
\* the session key of the run counter of the app of this session
RunCounterKey ==
    IF app = "key-concepts" THEN "run_count"
    ELSE IF app = "lab1" THEN "runs" ELSE "app_runs"

\* the run counter as the last full run wrote it on the page
RunCounterShown ==
    IF app = "key-concepts" THEN rendered.run_count
    ELSE IF app = "lab1" THEN rendered.runs ELSE rendered.app_runs

\* C6: in key-concepts, lab1 and caching-fragments the run counter does not
\* exist before the first run, and after n full script executions of a session
\* without a state reset it is stored, and shown, as n.
C6_CounterCountsFullRuns ==
    (app \in {"key-concepts", "lab1", "caching-fragments"} /\ ~history.reset) =>
        /\ history.full = 0 => ~Has(session_state, RunCounterKey)
        /\ history.full > 0 =>
              /\ Has(session_state, RunCounterKey)
              /\ session_state[RunCounterKey] = history.full
              /\ RunCounterShown = history.full

\* three full runs of a session, with a fragment rerun among them
C6_Witness ==
    /\ app = "caching-fragments"
    /\ history.full = 3
    /\ history.fragment >= 1
    /\ session_state["app_runs"] = 3
    /\ rendered.app_runs = 3

\* C7: a fragment rerun (a widget inside the fragment changed) re-executes the
\* fragment only: it is no full run and it leaves the full-run counter as it
\* was, however fragment reruns and full reruns interleave.
C7_FragmentRerunKeepsRunCounter ==
    [][ (app \in {"key-concepts", "caching-fragments"}
            /\ history'.fragment # history.fragment) =>
          /\ history'.full = history.full
          /\ Has(session_state', RunCounterKey)
          /\ session_state'[RunCounterKey] = session_state[RunCounterKey]
          /\ RunCounterShown' = RunCounterShown ]_vars

\* fragment reruns and full reruns have interleaved: more fragment runs than
\* full runs are counted, after a full run that followed a fragment rerun
C7_Witness ==
    /\ app = "caching-fragments"
    /\ history.fragment >= 2
    /\ history.full >= 2
    /\ rendered.fragment.app_runs = 2
    /\ session_state["fragment_runs"] > session_state["app_runs"]

\* C8: in key-concepts an edit of the inputs A or B of add_form triggers no
\* script run and writes nothing; pressing Add triggers exactly one run, and
\* only a run in which Add was pressed shows the sum A + B and writes
\* rerun_last_submit.
C8_FormDefersTheRun ==
    [][ app = "key-concepts" =>
          /\ <<request'.form_a, request'.form_b>> # <<KeyRequest.form_a, KeyRequest.form_b>>
                => /\ session_state' = session_state
                   /\ history' = history
                   /\ rendered' = rendered
          /\ (history'.full # history.full /\ request'.button = "Add") =>
                /\ history'.full = history.full + 1
                /\ session_state'["run_count"] = session_state["run_count"] + 1
                /\ rendered'.sum = <<request.form_a + request.form_b>>
                /\ Has(session_state', "rerun_last_submit")
          /\ (history'.full # history.full /\ request'.button # "Add") =>
                /\ rendered'.sum = <<>>
                /\ Has(session_state', "rerun_last_submit") =>
                      /\ Has(session_state, "rerun_last_submit")
                      /\ session_state'["rerun_last_submit"] =
                            session_state["rerun_last_submit"] ]_vars

\* Add was pressed after A and B were edited: the sum is shown and the time of
\* the submit is stored, in the run that the press triggered
C8_Witness ==
    /\ app = "key-concepts"
    /\ request.button = "Add"
    /\ request.form_a = 1 /\ request.form_b = 2
    /\ rendered.sum = <<3>>
    /\ Has(session_state, "rerun_last_submit")
    /\ session_state["run_count"] = 2

(***************************************************************************)
(* Claims about the scripts that load a spreadsheet.                       *)
(***************************************************************************)
\* the last run of this session called conn.read()
ReadWasCalled ==
    /\ app \in {"chart-essentials", "interactivity", "secrets", "caching-fragments"}
    /\ rendered.status # "none"
    /\ app = "secrets" => spreadsheet_configured(server.secrets)

\* C9: in chart-essentials, interactivity, secrets-connecting-data and
\* caching-fragments, when the data-connection call raises, the script catches
\* the exception, shows an error message and halts: nothing below the load is
\* rendered or updated in that run.
C9_ReadFailureIsCaught ==
    (ReadWasCalled /\ request.read = "raises") =>
        /\ rendered.status = "stopped"
        /\ rendered.error
        /\ rendered.where = "read"
        /\ ~rendered.shown

\* C10: coercion turns a cell that cannot be parsed into a missing value and
\* keeps the value of a cell that can, every row stays in the table, and the
\* coercion itself never halts the script, whichever of the expected columns
\* the sheet has.
C10_CoercionNeverHalts ==
    (ReadWasCalled /\ app # "secrets" /\ request.read = "ok") =>
        /\ rendered.where # "coercion"
        /\ rendered.status = "ok" =>
              /\ Len(rendered.table) = Len(server.sheet.rows)
              /\ \A i \in 1..Len(rendered.table) :
                    LET cell == server.sheet.rows[i].num
                        value == rendered.table[i].num
                    IN IF IsNumber(cell) THEN value = <<NumberOf(cell)>>
                       ELSE value = Missing

(***************************************************************************)
(* Claims about the caching demo.                                          *)
(***************************************************************************)
\* C11: in the caching demo the aggregation pipeline is executed at most once
\* through the cached function over any sequence of full reruns, a call with
\* the result stored reuses it, and a full run in 'No caching' mode executes
\* the pipeline exactly once; the aggregation result is the same in every run,
\* and the slider only slices it to the top cities by total sales.
C11_CachedPipelineRunsOnce ==
    [][ app = "caching-fragments" =>
          /\ history'.cached <= 1
          /\ (history'.full # history.full /\ rendered'.status = "ok") =>
                /\ request'.cache_mode = "Use caching" =>
                      /\ rendered'.executed = (IF history.cached = 0 THEN 1 ELSE 0)
                      /\ history'.cached = history.cached + rendered'.executed
                      /\ history'.nocache = history.nocache
                /\ request'.cache_mode = "No caching" =>
                      /\ rendered'.executed = 1
                      /\ history'.nocache = history.nocache + 1
                      /\ history'.cached = history.cached
                /\ rendered.status = "ok" => rendered'.agg = rendered.agg
                /\ rendered'.top_cities \subseteq DOMAIN rendered'.agg.city_summary
                /\ Cardinality(rendered'.top_cities) =
                      Min(request'.top_n_cities,
                          Cardinality(DOMAIN rendered'.agg.city_summary))
                /\ \A c \in rendered'.top_cities :
                      \A d \in (DOMAIN rendered'.agg.city_summary) \ rendered'.top_cities :
                          rendered'.agg.city_summary[c] > rendered'.agg.city_summary[d] ]_vars

\* a first run that filled the cache, a run in which the slider was moved to
\* three cities and the stored result was reused, then a run without caching
\* that executed the pipeline again and showed the same three cities of four
C11_Witness ==
    /\ app = "caching-fragments"
    /\ history.full = 3
    /\ history.cached = 1
    /\ history.nocache = 1
    /\ rendered.status = "ok"
    /\ request.cache_mode = "No caching"
    /\ rendered.executed = 1
    /\ request.top_n_cities = 3
    /\ Cardinality(rendered.top_cities) = 3
    /\ Cardinality(DOMAIN rendered.agg.city_summary) = 4

(***************************************************************************)
(* Claims about lab1.py.                                                   *)
(***************************************************************************)
\* C12: in lab1 the stored counter equals the number of clicks on Increment
\* counter since the most recent click on Reset counter (or since the session
\* started), a rerun caused by anything else leaves it unchanged, and it is
\* never negative.
C12_CounterCountsIncrements ==
    [][ (app = "lab1" /\ history'.full # history.full) =>
          /\ Has(session_state', "counter")
          /\ session_state'["counter"] = history'.clicks
          /\ rendered'.counter = history'.clicks
          /\ session_state'["counter"] >= 0
          /\ (Has(session_state, "counter")
                /\ request'.button \notin {"Increment counter", "Reset counter"}) =>
                session_state'["counter"] = session_state["counter"] ]_vars

\* the counter holds a click after a rerun that a change of the text input caused
C12_Witness ==
    /\ app = "lab1"
    /\ history.full = 3
    /\ request.button = "name"
    /\ session_state["counter"] = 1
    /\ rendered.counter = 1

\* C13: in lab1 a change of the text input `name` or of the slider `num` runs
\* _mark_event before the body of the rerun it causes, so that rerun shows the
\* banner with the time of the change; last_event is absent until the first
\* such change, and a rerun that a button or a sidebar widget caused does not
\* write it.
C13_CallbackRunsBeforeTheRerun ==
    /\ app = "lab1" => ~Has(session_state, "last_event")
    /\ [][ (app = "lab1" /\ history'.full # history.full) =>
             /\ request'.button \in {"name", "num"} =>
                   /\ Has(session_state', "last_event")
                   /\ session_state'["last_event"] = request'.now
                   /\ rendered'.last_event = <<request'.now>>
             /\ request'.button \notin {"name", "num"} =>
                   /\ Has(session_state', "last_event") = Has(session_state, "last_event")
                   /\ Has(session_state, "last_event") =>
                         session_state'["last_event"] = session_state["last_event"]
                   /\ rendered'.last_event =
                         IF Has(session_state, "last_event")
                         THEN <<session_state["last_event"]>> ELSE <<>> ]_vars

\* the slider was moved at a later time than the text input was changed, and
\* the banner of that rerun shows the later time
C13_Witness ==
    /\ app = "lab1"
    /\ history.full = 3
    /\ request.button = "num"
    /\ request.now = 1
    /\ session_state["num"] = 7
    /\ session_state["name"] = "Ann"
    /\ rendered.last_event = <<1>>

\* C14: in lab1 the per-run value shown changes from one rerun to the next
\* within a session, it is not the same value on every rerun.  Stated for the
\* reruns only: a rerun of a session that has run twice or more shows another
\* value than the run before it.
C14_PerRunValueChanges ==
    [][ (app = "lab1" /\ history.full >= 2 /\ history'.full # history.full) =>
          rendered'.random_per_run # rendered.random_per_run ]_vars

(***************************************************************************)
(* Claims about the state each filters page owns.                          *)
(***************************************************************************)
\* C15: on the filter-placement page, once the three entries exist, Apply on
\* the global toolbar changes only `global`, Apply or Reset on the Sales form
\* changes only `sales_filters`, Apply or Reset on the Inventory form changes
\* only `inv_filters`, and a run without a submit changes none of the three.
C15_EachSectionOwnsItsState ==
    [][ (app = "patterns" /\ Has(session_state, "global")
            /\ Has(session_state, "sales_filters") /\ Has(session_state, "inv_filters")) =>
          /\ DOMAIN session_state' = DOMAIN session_state
          /\ request'.button # "Apply" =>
                session_state'["global"] = session_state["global"]
          /\ request'.button \notin {"Apply sales filters", "Reset sales filters"} =>
                session_state'["sales_filters"] = session_state["sales_filters"]
          /\ request'.button \notin {"Apply inventory filters", "Reset inventory filters"} =>
                session_state'["inv_filters"] = session_state["inv_filters"] ]_vars

\* the global toolbar was applied while the two sections held filters of
\* their own, which are still in place
C15_Witness ==
    /\ app = "patterns"
    /\ request.button = "Apply"
    /\ Has(session_state, "inv_filters")
    /\ session_state["global"].start = to_datetime(g_max)
    /\ session_state["sales_filters"].cats = {"Beta"}
    /\ session_state["inv_filters"].wh = {"East"}

\* C16: every run of a filters page builds the dataset again, and builds the
\* same one: the same rows and values as in the run before, whatever state the
\* generator was left in and whatever filters were applied, hence the same
\* slider and date bounds; the filtered table is a part of it, and the dataset
\* itself keeps every row.
C16_DatasetIsTheSameEveryRun ==
    [][ (app \in {"intro", "form", "patterns"}) =>
          /\ rendered.status # "none" => rendered'.dataset = rendered.dataset
          /\ app = "patterns" =>
                /\ rendered.status # "none" => rendered'.inventory = rendered.inventory
                /\ Cardinality(rendered'.inventory) = Len(warehouses) * NumDays
          /\ Cardinality(rendered'.dataset) = Len(cats) * NumDays
          /\ rendered'.table \subseteq rendered'.dataset
          /\ SetMin({ r.value : r \in rendered'.dataset }) = vmin
          /\ SetMax({ r.value : r \in rendered'.dataset }) = vmax
          /\ date_of(SetMin({ r.date : r \in rendered'.dataset })) = min_d
          /\ max_d = date_of(SetMax({ r.date : r \in rendered'.dataset })) ]_vars

\* a narrower filter was applied on the form page, and the run that applied it
\* built the whole dataset again
C16_Witness ==
    /\ app = "form"
    /\ request.button = "Apply"
    /\ rendered.status = "ok"
    /\ rendered.table # {}
    /\ rendered.table # rendered.dataset
    /\ Cardinality(rendered.dataset) = Len(cats) * NumDays

(***************************************************************************)
(* Claims about the secrets demo.                                          *)
(***************************************************************************)
\* C17: in the secrets demo, when the secrets hold no
\* connections.gsheets.spreadsheet entry the run shows the setup hint and halts
\* before a connection is created or read; the table and the download button
\* are rendered only in a run whose spreadsheet read succeeded, and in every
\* such run.
C17_SecretsAreCheckedFirst ==
    (app = "secrets" /\ rendered.status # "none") =>
        /\ {"connections", "gsheets", "spreadsheet"} \subseteq server.secrets
              \/ /\ rendered.status = "unconfigured"
                 /\ rendered.hint
                 /\ ~rendered.connected
                 /\ ~rendered.read_called
                 /\ ~rendered.shown
                 /\ ~rendered.download
        /\ (rendered.shown \/ rendered.download) =>
              /\ {"connections", "gsheets", "spreadsheet"} \subseteq server.secrets
              /\ rendered.read_called
              /\ request.read = "ok"
        /\ ({"connections", "gsheets", "spreadsheet"} \subseteq server.secrets
              /\ request.read = "ok") =>
              /\ rendered.shown /\ rendered.download
              /\ rendered.table = server.sheet.rows

\* a run of a session whose secrets have the gsheets section without the
\* spreadsheet entry: the hint is shown and no connection is made
C17_Witness ==
    /\ app = "secrets"
    /\ server.secrets = {"connections", "gsheets"}
    /\ history.full = 2
    /\ rendered.status = "unconfigured"
    /\ rendered.hint
    /\ ~rendered.connected

\* C18: in the multi-page filters app, navigating among the three pages and
\* interacting on any of them never changes the stored state of another page:
\* applied_filters changes only in a run of the form page, and global,
\* sales_filters and inv_filters only in a run of the filter-placement page;
\* the run that draws a page the user returns to finds its filters in place.
C18_PagesKeepTheirState ==
    [][ /\ \A k \in {"applied_filters", "global", "sales_filters", "inv_filters"} :
              (app' # (IF k = "applied_filters" THEN "form" ELSE "patterns")
                  \/ rendered'.status = "none") =>
                 /\ Has(session_state', k) = Has(session_state, k)
                 /\ Has(session_state, k) => session_state'[k] = session_state[k]
        /\ (rendered.status = "none" /\ app = app') =>
              \A k \in {"applied_filters", "global", "sales_filters", "inv_filters"} :
                 Has(session_state, k) =>
                    (Has(session_state', k) /\ session_state'[k] = session_state[k]) ]_vars

\* the user is back on the form page, which is about to be drawn: the filter
\* applied there and the filters applied on the filter-placement page are in place
C18_Witness ==
    /\ app = "form"
    /\ rendered.status = "none"
    /\ Has(session_state, "applied_filters")
    /\ Has(session_state, "sales_filters")
    /\ session_state["applied_filters"].cats = {"Beta"}
    /\ session_state["sales_filters"].cats = {"Alpha"}
    /\ session_state["global"].start = to_datetime(g_max)

====
